---- MODULE Spec2Model ----
(***************************************************************************)
(* pot-api: the job queue (queue.ts: in-memory and Redis backends behind   *)
(* createJob / getJob / updateJob), the POST /verify/async handler and the *)
(* detached runner runJob with its webhook push (index.ts).                *)
(*                                                                         *)
(* Time is counted in minutes.  Node runs the program on one thread: a     *)
(* continuation of an already settled promise (a microtask) runs before    *)
(* any timer, socket reply or new HTTP request (macrotasks).               *)
(***************************************************************************)
EXTENDS Integers, Sequences, FiniteSets, TLC

\* ---------------------------------------------------------------- bounds
\* Number of POST /verify/async requests (and so of UUIDs drawn).
MaxJobs == 2
\* Number of times the clock is seen to advance.
MaxTicks == 2
\* Number of Redis commands whose promise rejects.
MaxFaults == 1

\* ------------------------------------------------------ program constants
\* queue.ts:30  cutoff = Date.now() - 60 * 60 * 1000   (minutes)
RETENTION == 60
\* queue.ts:36  setInterval(..., 10 * 60 * 1000)       (minutes)
SWEEP_INTERVAL == 10
\* queue.ts:98,114  'EX', 86400                          (minutes)
TTL == 1440

Requests == 1..MaxJobs
UUIDs == 1..MaxJobs

\* The clock advances by one of these amounts at a time.
TickSteps == {1, RETENTION, TTL - 1, TTL}

\* The environment is explored in two ways: runs of up to MaxJobs concurrent
\* requests that take place within one minute and with Redis answering
\* every command, and runs of the requests below alone, in which the clock
\* advances, Redis commands are rejected and a client polls GET /jobs/:id.
SoloRequests == {1}

\* ------------------------------------------------------------ JS values
\* The value of a missing property / an omitted body field.
Undefined == "undefined"

\* Property read: obj.k is undefined when obj has no own property k.
Prop(obj, k) == IF k \in DOMAIN obj THEN obj[k] ELSE Undefined

\* (mutant) the patch written in place of the record, not merged into it.
ObjectReplace(job, patch, last) ==
    [k \in DOMAIN patch \cup DOMAIN last |->
        IF k \in DOMAIN last THEN last[k] ELSE patch[k]]

\* Object.assign(target, patch, last) / { ...job, ...patch, ...last }:
\* later sources win, keys of the target that no source names are kept.
ObjectAssign(job, patch, last) ==
    [k \in DOMAIN job \cup DOMAIN patch \cup DOMAIN last |->
        IF k \in DOMAIN last THEN last[k]
        ELSE IF k \in DOMAIN patch THEN patch[k]
        ELSE job[k]]

\* new Date(t).toISOString(), at the clock's resolution.
toISOString(t) == [h |-> t \div 60, m |-> t % 60]

\* new Date(iso).getTime()
getTime(iso) == iso.h * 60 + iso.m

\* JSON.stringify of a plain object: properties whose value is undefined
\* are left out, nested objects likewise.
\* (Only the text-valued properties of a job can hold undefined.)
TextKeys == {"status", "result", "error", "output", "question", "tier", "callbackUrl"}

StripUndefined(obj) ==
    [k \in {x \in DOMAIN obj : x \in TextKeys => obj[x] # Undefined} |-> obj[k]]

JSONstringify(job) ==
    [json |-> [StripUndefined(job) EXCEPT !.input = StripUndefined(job.input)]]

\* JSON.parse of a string JSONstringify produced.
JSONparse(raw) == raw.json

\* ------------------------------------------------------- request bodies
\* output / question: "" is the missing (falsy) case; callbackUrl may be
\* omitted; anthropic says whether resolveKeys finds the mandatory key.
Bodies ==
    [output : {"", "out"}, question : {"", "q"},
     callbackUrl : {Undefined, "http://cb"}, anthropic : BOOLEAN]

\* config.ts validateConfig: the message, or null.
validateConfig(body) ==
    IF ~body.anthropic THEN "ANTHROPIC_API_KEY is required." ELSE "null"

\* (mutant) the handler without its check of output and question.
ValidationErrorLax(body) == validateConfig(body)

\* index.ts:61-71: the 400 the handler answers with, or null.
ValidationError(body) ==
    IF body.output = "" \/ body.question = ""
    THEN "output and question are required"
    ELSE validateConfig(body)

\* The input object the handler passes to createJob (tier defaults to basic).
JobInput(body) ==
    [output |-> body.output, question |-> body.question, tier |-> "basic",
     callbackUrl |-> body.callbackUrl]

\* --------------------------------------------------- verification outcomes
Results == {"resultA"}

\* What verify() may throw: an Error with a message (possibly empty), or a
\* value that is no Error.
Thrown ==
    { [isError |-> TRUE,  message |-> "",                 value |-> 0],
      [isError |-> FALSE, message |-> "",                 value |-> 429] }

\* What a rejected Redis command throws.
RedisError == [isError |-> TRUE, message |-> "Connection is closed.", value |-> 0]

\* index.ts:109  err instanceof Error ? err.message : String(err)
ErrorText(err) == IF err.isError THEN err.message ELSE ToString(err.value)


\* ------------------------------------------------------------------ state
VARIABLES
    now,        \* Date.now(), minutes
    ticks,      \* how often the clock has advanced
    redisUrl,   \* whether process.env.REDIS_URL is set
    backend,    \* queue.ts _backend: "null", "memory" or "redis"
    store,      \* InMemoryBackend.store: Map id -> Job
    nextSweep,  \* when the setInterval timer of the in-memory backend is due
    lastSweep,  \* when its callback last ran (-1: never)
    ready,      \* BullMQBackend.ready: "none", "pending" or "resolved"
    redis,      \* the Redis server's keys: key -> [raw, expireAt]
    issued,     \* the UUIDs randomUUID() has returned
    req,        \* per request: the handler's and runJob's locals and position
    setcmd,     \* per request: the value of the SET command in flight
    webhooks,   \* per request: the payloads pushWebhook was called with
    faults,     \* how many Redis commands have been rejected
    poll,       \* the GET /jobs/:id handler's position and what it answered
    ret         \* what the last facade call returned, per backend

vars == <<now, ticks, redisUrl, backend, store, nextSweep, lastSweep, ready,
          redis, issued, req, setcmd, webhooks, faults, poll, ret>>

obsVars == <<poll, ret>>

clockVars == <<now, ticks>>
memVars == <<store, nextSweep, lastSweep>>
redisVars == <<ready, redis, setcmd>>

NoInput == [output |-> "", question |-> "", tier |-> "basic", callbackUrl |-> Undefined]

\* A request slot before its POST arrives.  Beside the locals of the handler
\* and of runJob it records what happened: acked (the 202 was sent), verified
\* (how verify() settled), term (how the terminal updateJob call returned),
\* hook (how the fetch of pushWebhook settled).
IdleReq ==
    [pc |-> "idle", input |-> NoInput, jobId |-> 0, createdAt |-> -1,
     acked |-> FALSE, phase |-> "none", verified |-> "none",
     result |-> Undefined, error |-> Undefined, term |-> "none",
     hook |-> "none"]

\* The poller before its first GET /jobs/:id: the id it asks for (0: none
\* yet) and the answers it got, in order, without immediate repeats.
IdlePoll == [pc |-> "idle", id |-> 0, seen |-> <<>>]

\* No facade call has returned yet.
NoCall == [mem |-> [kind |-> "none"], red |-> [kind |-> "none"]]

Init ==
    /\ now = 0
    /\ ticks = 0
    /\ redisUrl \in BOOLEAN
    /\ backend = "null"
    /\ store = <<>>
    /\ nextSweep = -1
    /\ lastSweep = -1
    /\ ready = "none"
    /\ redis = <<>>
    /\ issued = {}
    /\ req = [r \in Requests |-> IdleReq]
    /\ setcmd = <<>>
    /\ webhooks = [r \in Requests |-> <<>>]
    /\ faults = 0
    /\ poll = IdlePoll
    /\ ret = NoCall

\* A continuation of a settled promise is queued: it runs before any timer
\* callback, socket reply or incoming request.
MicrotaskPending ==
    \E r \in Requests :
        \/ req[r].pc \in {"created", "run_start", "catch", "hook_start"}
        \/ req[r].pc = "c_wait" /\ ready = "resolved"
        \/ poll.pc = "p_wait" /\ ready = "resolved"

\* Only requests of SoloRequests have arrived.
Solo == \A r \in Requests \ SoloRequests : req[r].pc = "idle"

\* ------------------------------------------------------- queue.ts helpers
\* (mutant) an id generator that may repeat an id.
repeatingUUID == UUIDs

\* crypto.randomUUID(): a version-4 UUID; a repeat has probability 2^-122
\* and is taken to be impossible.
randomUUID == UUIDs \ issued

\* The record createJob builds (queue.ts:40-46 and 90-96).
NewJob(id, t, input) ==
    [id |-> id, status |-> "pending", createdAt |-> toISOString(t),
     updatedAt |-> toISOString(t), input |-> input]

\* BullMQBackend.key
key(id) == <<"pot-api:jobs", id>>

\* Map.delete / function restriction.
Without(f, ks) == [k \in DOMAIN f \ ks |-> f[k]]

\* Map.set / Redis SET on one key.
With(f, k, v) == [x \in DOMAIN f \cup {k} |-> IF x = k THEN v ELSE f[x]]

\* (mutant) the cutoff compared with <= : a record exactly one hour old goes.
ExpiredAtCutoff(job, t) == getTime(job.createdAt) <= t - RETENTION

\* The sweeper's test on one record (queue.ts:30-32).
Expired(job, t) == getTime(job.createdAt) < t - RETENTION

\* (mutant) an update that also restarts the retention (stamps createdAt).
MemUpdateJobTouch(st, id, patch, t) ==
    IF id \in DOMAIN st
    THEN [st EXCEPT ![id] = ObjectAssign(@, patch,
                               [updatedAt |-> toISOString(t),
                                createdAt |-> toISOString(t)])]
    ELSE st

\* InMemoryBackend.updateJob
MemUpdateJob(st, id, patch, t) ==
    IF id \in DOMAIN st
    THEN [st EXCEPT ![id] = ObjectAssign(@, patch, [updatedAt |-> toISOString(t)])]
    ELSE st

\* Whether a key is live on the Redis server (set and not past its EX time).
\* Every value under a job key was written by JSONstringify, so JSON.parse
\* in getJob succeeds whenever GET returns a value.
RedisHas(k) == k \in DOMAIN redis /\ now < redis[k].expireAt

\* (mutant) SET key value KEEPTTL: only the first write sets the expiry.
RedisSetKeepTTL(k, raw) ==
    With(redis, k, [raw |-> raw,
                    expireAt |-> IF k \in DOMAIN redis /\ now < redis[k].expireAt
                                 THEN redis[k].expireAt ELSE now + TTL])

\* SET key value EX 86400
RedisSet(k, raw) == With(redis, k, [raw |-> raw, expireAt |-> now + TTL])

\* (mutant) an update that does not stamp updatedAt.
RedisUpdatedUnstamped(job, patch, t) ==
    JSONstringify(ObjectAssign(job, patch, <<>>))

\* BullMQBackend.updateJob, from the record getJob returned to the SET value.
RedisUpdated(job, patch, t) ==
    JSONstringify(ObjectAssign(job, patch, [updatedAt |-> toISOString(t)]))

\* What getJob returns for an id, when it returns a record.
Stored(id) ==
    CASE backend = "memory" -> id \in DOMAIN store
      [] backend = "redis" -> RedisHas(key(id))
      [] OTHER -> FALSE

GetJob(id) ==
    IF backend = "memory" THEN store[id] ELSE JSONparse(redis[key(id)].raw)

\* What getJob returns: a record, or undefined.
RetJob(job) == [kind |-> "job", job |-> job]
RetUndefined == [kind |-> "undefined"]

\* InMemoryBackend.getJob
MemGetJob(id) == IF id \in DOMAIN store THEN RetJob(store[id]) ELSE RetUndefined

\* BullMQBackend.getJob
RedisGetJob(id) ==
    IF RedisHas(key(id)) THEN RetJob(JSONparse(redis[key(id)].raw))
    ELSE RetUndefined

\* (mutant) getQueue() without its cache: the choice is made at every call.
getQueueUncached == IF redisUrl THEN "redis" ELSE "memory"

\* getQueue(): the backend it returns.
getQueue ==
    IF backend # "null" THEN backend
    ELSE IF redisUrl THEN "redis" ELSE "memory"

\* (mutant) the done patch without the result.
PatchOfNoResult(q) ==
    CASE q.phase = "running" -> [status |-> "running"]
      [] q.phase = "done" -> [status |-> "done"]
      [] q.phase = "error" -> [status |-> "error", error |-> q.error]

\* The patches runJob passes to updateJob (index.ts:99, 103, 110).
PatchOf(q) ==
    CASE q.phase = "running" -> [status |-> "running"]
      [] q.phase = "done" -> [status |-> "done", result |-> q.result]
      [] q.phase = "error" -> [status |-> "error", error |-> q.error]

\* ------------------------------------------------------- runJob control
\* (mutant) the webhook is pushed whether or not a callbackUrl was given.
HasCallbackAlways(q) == TRUE

\* index.ts:105,112  if (callbackUrl)
HasCallback(q) == q.input.callbackUrl # Undefined

\* Where runJob goes when an updateJob call has returned; how says whether
\* the call wrote the record ("written") or found none ("noop").
AfterUpdate(q, how) ==
    IF q.phase = "running"
    THEN [q EXCEPT !.pc = "verify"]
    ELSE [q EXCEPT !.term = how,
                   !.pc = IF HasCallback(q) THEN "hook_start" ELSE "end"]

\* Where runJob goes when an awaited call rejects with err: the first
\* updateJob is outside the try block, the catch block has no handler of
\* its own, and the try block's catch starts updateJob(error).
AfterReject(q, err) ==
    IF q.phase = "done"
    THEN [q EXCEPT !.phase = "error", !.error = ErrorText(err), !.pc = "catch"]
    ELSE [q EXCEPT !.pc = "rejected"]

\* (mutant) pushWebhook without its try/catch: a failed fetch rejects it.
pushWebhookUncaught(outcome) == IF outcome = "failed" THEN "rejected" ELSE "resolved"

\* pushWebhook's promise: its try/catch swallows every failure of fetch.
pushWebhookSettles(outcome) == "resolved"


\* ------------------------------------------------ POST /verify/async
\* index.ts:52-73 on the in-memory backend, or with a body that fails the
\* checks: a 400 before anything is touched; otherwise getQueue() (which
\* constructs the backend on first use) and createJob, which stores the
\* record before it returns.  On the Redis backend createJob continues in
\* CreateJobRedis.  Request slots are taken in order.
PostVerifyAsync(r, body) ==
    /\ req[r].pc = "idle"
    /\ \A r2 \in Requests : r2 < r => req[r2].pc # "idle"
    /\ r \notin SoloRequests => ticks = 0 /\ faults = 0 /\ poll = IdlePoll
    /\ ~MicrotaskPending
    /\ IF ValidationError(body) # "null"
       THEN /\ req' = [req EXCEPT ![r].pc = "badreq"]
            /\ UNCHANGED <<backend, store, nextSweep, ready, issued>>
       ELSE /\ backend' = getQueue
            /\ IF getQueue = "memory"
               THEN /\ \E id \in randomUUID :
                         /\ store' = With(store, id, NewJob(id, now, JobInput(body)))
                         /\ issued' = issued \cup {id}
                         /\ req' = [req EXCEPT ![r].pc = "created",
                                               ![r].input = JobInput(body),
                                               ![r].jobId = id,
                                               ![r].createdAt = now]
                    /\ nextSweep' = IF backend = "null" THEN now + SWEEP_INTERVAL
                                    ELSE nextSweep
                    /\ UNCHANGED ready
               ELSE /\ req' = [req EXCEPT ![r].pc = "c_wait",
                                          ![r].input = JobInput(body)]
                    /\ ready' = IF backend = "null" THEN "pending" ELSE ready
                    /\ UNCHANGED <<store, nextSweep, issued>>
    /\ UNCHANGED <<clockVars, obsVars, redisUrl, lastSweep, redis, setcmd, webhooks, faults>>

\* BullMQBackend constructor: the dynamic import settles and the client is
\* constructed (queue.ts:73-81).
ImportDone ==
    /\ ready = "pending"
    /\ ready' = "resolved"
    /\ UNCHANGED <<clockVars, obsVars, redisUrl, backend, memVars, redis, setcmd, issued,
                   req, webhooks, faults>>

\* (mutant) an operation that does not await ready: it goes on as soon as
\* the backend is constructed.
NotAwaited == ready # "none"

\* `await this.ready` (queue.ts:89, 103, 110) lets the operation go on.
ReadyAwaited == ready = "resolved"

\* BullMQBackend.createJob after `await this.ready`: builds the record and
\* issues SET (queue.ts:89-98).
CreateJobRedis(r) ==
    /\ req[r].pc = "c_wait"
    /\ ReadyAwaited
    /\ \E id \in randomUUID :
         /\ issued' = issued \cup {id}
         /\ setcmd' = With(setcmd, r, JSONstringify(NewJob(id, now, req[r].input)))
         /\ req' = [req EXCEPT ![r].pc = "c_set", ![r].jobId = id,
                               ![r].createdAt = now]
    /\ UNCHANGED <<clockVars, obsVars, redisUrl, backend, memVars, ready, redis, webhooks, faults>>

\* The outcomes of a command sent to Redis.  A rejected promise does not say
\* whether the server executed the command: "lost" is a SET that reached the
\* server whose reply never reached the client, "failed" one that did not.
SetOutcomes == {"ok", "lost", "failed"}
GetOutcomes == {"ok", "failed"}

\* createJob's SET settles (queue.ts:98-99).  A rejection leaves the handler
\* without a job: no 202 is sent and runJob is not called.
CreateSetReply(r, outcome) ==
    /\ req[r].pc = "c_set"
    /\ ~MicrotaskPending
    /\ outcome # "ok" => Solo /\ faults < MaxFaults
    /\ faults' = IF outcome = "ok" THEN faults ELSE faults + 1
    /\ redis' = IF outcome \in {"ok", "lost"}
                THEN RedisSet(key(req[r].jobId), setcmd[r]) ELSE redis
    /\ setcmd' = Without(setcmd, {r})
    /\ req' = [req EXCEPT ![r].pc = IF outcome = "ok" THEN "created" ELSE "crashed"]
    /\ UNCHANGED <<clockVars, obsVars, redisUrl, backend, memVars, ready, issued, webhooks>>

\* (mutant) the handler calls runJob without having answered.
RunWithoutAck(q) == [q EXCEPT !.pc = "run_start"]

\* index.ts:74,77  the 202 is written, then runJob is called.
AckThenRun(q) == [q EXCEPT !.acked = TRUE, !.pc = "run_start"]

\* index.ts:74  res.status(202).json({ jobId, status: 'pending', pollUrl })
Ack(r) ==
    /\ req[r].pc = "created"
    /\ req' = [req EXCEPT ![r] = AckThenRun(@)]
    /\ UNCHANGED <<clockVars, obsVars, redisUrl, backend, memVars, redisVars, issued, webhooks, faults>>

\* ------------------------------------------------------------- runJob
\* updateJob(jobId, patch) is called: the in-memory backend writes before
\* the call returns; the Redis backend issues GET (getJob) and continues
\* in UpdGetReply.
StartUpdate(r, q) ==
    IF backend = "memory"
    THEN /\ store' = MemUpdateJob(store, q.jobId, PatchOf(q), now)
         /\ req' = [req EXCEPT ![r] =
                       AfterUpdate(q, IF q.jobId \in DOMAIN store
                                      THEN "written" ELSE "noop")]
    ELSE /\ req' = [req EXCEPT ![r] = [q EXCEPT !.pc = "u_get"]]
         /\ UNCHANGED store

\* index.ts:77,99  runJob is called and starts updateJob(running).
RunStart(r) ==
    /\ req[r].pc = "run_start"
    /\ StartUpdate(r, [req[r] EXCEPT !.phase = "running"])
    /\ UNCHANGED <<clockVars, obsVars, redisUrl, backend, nextSweep, lastSweep, redisVars,
                   issued, webhooks, faults>>

\* index.ts:102-103  verify() returns a result; updateJob(done) starts.
VerifyReturn(r, res) ==
    /\ req[r].pc = "verify"
    /\ ~MicrotaskPending
    /\ StartUpdate(r, [req[r] EXCEPT !.phase = "done", !.verified = "ok",
                                     !.result = res])
    /\ UNCHANGED <<clockVars, obsVars, redisUrl, backend, nextSweep, lastSweep, redisVars,
                   issued, webhooks, faults>>

\* index.ts:108-110  verify() throws; updateJob(error) starts.
VerifyThrow(r, err) ==
    /\ req[r].pc = "verify"
    /\ ~MicrotaskPending
    /\ StartUpdate(r, [req[r] EXCEPT !.phase = "error", !.verified = "fail",
                                     !.error = ErrorText(err)])
    /\ UNCHANGED <<clockVars, obsVars, redisUrl, backend, nextSweep, lastSweep, redisVars,
                   issued, webhooks, faults>>

\* index.ts:108-110 entered from a rejection inside the try block.
Catch(r) ==
    /\ req[r].pc = "catch"
    /\ StartUpdate(r, req[r])
    /\ UNCHANGED <<clockVars, obsVars, redisUrl, backend, nextSweep, lastSweep, redisVars,
                   issued, webhooks, faults>>

\* BullMQBackend.updateJob: getJob's GET settles (queue.ts:104-106, 111-114).
\* No record: updateJob returns.  A record: SET of the merged record is
\* issued.  A rejected GET rejects getJob and so updateJob.
UpdGetReply(r, outcome) ==
    /\ req[r].pc = "u_get"
    /\ ~MicrotaskPending
    /\ outcome # "ok" => Solo /\ faults < MaxFaults
    /\ faults' = IF outcome = "ok" THEN faults ELSE faults + 1
    /\ IF outcome = "failed"
       THEN /\ req' = [req EXCEPT ![r] = AfterReject(@, RedisError)]
            /\ UNCHANGED setcmd
       ELSE IF RedisHas(key(req[r].jobId))
       THEN /\ setcmd' = With(setcmd, r,
                   RedisUpdated(JSONparse(redis[key(req[r].jobId)].raw),
                                PatchOf(req[r]), now))
            /\ req' = [req EXCEPT ![r].pc = "u_set"]
       ELSE /\ req' = [req EXCEPT ![r] = AfterUpdate(@, "noop")]
            /\ UNCHANGED setcmd
    /\ UNCHANGED <<clockVars, obsVars, redisUrl, backend, memVars, ready, redis, issued,
                   webhooks>>

\* BullMQBackend.updateJob: its SET settles (queue.ts:114).
UpdSetReply(r, outcome) ==
    /\ req[r].pc = "u_set"
    /\ ~MicrotaskPending
    /\ outcome # "ok" => Solo /\ faults < MaxFaults
    /\ faults' = IF outcome = "ok" THEN faults ELSE faults + 1
    /\ redis' = IF outcome \in {"ok", "lost"}
                THEN RedisSet(key(setcmd[r].json.id), setcmd[r]) ELSE redis
    /\ setcmd' = Without(setcmd, {r})
    /\ req' = [req EXCEPT ![r] = IF outcome = "ok" THEN AfterUpdate(@, "written")
                                 ELSE AfterReject(@, RedisError)]
    /\ UNCHANGED <<clockVars, obsVars, redisUrl, backend, memVars, ready, issued, webhooks>>

\* (mutant) the payload built from how verify() settled, whichever branch
\* of runJob pushes it.
PayloadOfVerify(q) ==
    IF q.verified = "ok"
    THEN [jobId |-> q.jobId, status |-> "done", result |-> q.result]
    ELSE [jobId |-> q.jobId, status |-> "error", error |-> q.error]

\* The payload runJob hands to pushWebhook (index.ts:106, 113).
Payload(q) ==
    IF q.phase = "done"
    THEN [jobId |-> q.jobId, status |-> "done", result |-> q.result]
    ELSE [jobId |-> q.jobId, status |-> "error", error |-> q.error]

\* index.ts:105-106, 112-113 and 118-125: pushWebhook is called, fetch is issued.
PushWebhook(r) ==
    /\ req[r].pc = "hook_start"
    /\ webhooks' = [webhooks EXCEPT ![r] = Append(@, Payload(req[r]))]
    /\ req' = [req EXCEPT ![r].pc = "hook_wait"]
    /\ UNCHANGED <<clockVars, obsVars, redisUrl, backend, memVars, redisVars, issued, faults>>

\* The fetch settles (a response, or a network error / the 10 s timeout /
\* an invalid URL) and with it pushWebhook's promise (index.ts:119-128).
WebhookOutcomes == {"ok", "failed"}

WebhookReply(r, outcome) ==
    /\ req[r].pc = "hook_wait"
    /\ ~MicrotaskPending
    /\ req' = [req EXCEPT ![r] =
                  IF pushWebhookSettles(outcome) = "resolved"
                  THEN [@ EXCEPT !.hook = outcome, !.pc = "end"]
                  ELSE AfterReject([@ EXCEPT !.hook = outcome],
                                   [isError |-> TRUE, message |-> "fetch failed",
                                    value |-> 0])]
    /\ UNCHANGED <<clockVars, obsVars, redisUrl, backend, memVars, redisVars, issued, webhooks, faults>>

\* ------------------------------------------------------ time and sweeper
\* The clock advances (between macrotasks: a chain of microtasks takes no
\* time at this resolution).
Tick(d) ==
    /\ ticks < MaxTicks
    /\ Solo
    /\ ~MicrotaskPending
    /\ now' = now + d
    /\ ticks' = ticks + 1
    /\ UNCHANGED <<obsVars, redisUrl, backend, memVars, redisVars, issued, req, webhooks, faults>>

\* The setInterval callback of the in-memory backend (queue.ts:29-36); a
\* timer never fires early and may fire late.
Sweep ==
    /\ backend = "memory"
    /\ now >= nextSweep
    /\ ~MicrotaskPending
    /\ store' = Without(store, {id \in DOMAIN store : Expired(store[id], now)})
    /\ nextSweep' = now + SWEEP_INTERVAL
    /\ lastSweep' = now
    /\ UNCHANGED <<clockVars, obsVars, redisUrl, backend, redisVars, issued, req, webhooks, faults>>

\* ------------------------------------------------------- GET /jobs/:id
\* What the handler answers (index.ts:83-87): 404, or the record as JSON.
Answer(r) ==
    IF r.kind = "job"
    THEN [status |-> r.job.status, result |-> Prop(r.job, "result")]
    ELSE [status |-> "404", result |-> Undefined]

\* The poller has its answer.
Answered(p, a) ==
    [p EXCEPT !.pc = "idle",
              !.seen = IF Len(@) > 0 /\ @[Len(@)] = a THEN @ ELSE Append(@, a)]

\* index.ts:81-87 with getQueue(): a GET /jobs/:id arrives (the poller keeps
\* to the id of its first request).  The in-memory backend answers from
\* the Map in the same turn; the Redis backend first awaits ready.
GetJobsId(id) ==
    /\ poll.pc = "idle"
    /\ poll.id \in {0, id}
    /\ Solo
    /\ ~MicrotaskPending
    /\ backend' = getQueue
    /\ IF getQueue = "memory"
       THEN /\ poll' = Answered([poll EXCEPT !.id = id], Answer(MemGetJob(id)))
            /\ nextSweep' = IF backend = "null" THEN now + SWEEP_INTERVAL
                            ELSE nextSweep
            /\ UNCHANGED ready
       ELSE /\ poll' = [poll EXCEPT !.id = id, !.pc = "p_wait"]
            /\ ready' = IF backend = "null" THEN "pending" ELSE ready
            /\ UNCHANGED nextSweep
    /\ UNCHANGED <<clockVars, redisUrl, store, lastSweep, redis, setcmd, issued,
                   req, webhooks, faults, ret>>

\* BullMQBackend.getJob after `await this.ready`: GET is issued (queue.ts:104).
PollGet ==
    /\ poll.pc = "p_wait"
    /\ ReadyAwaited
    /\ poll' = [poll EXCEPT !.pc = "p_get"]
    /\ UNCHANGED <<clockVars, redisUrl, backend, memVars, redisVars, issued, req,
                   webhooks, faults, ret>>

\* The GET settles (queue.ts:104-106) and the handler answers; a rejected
\* GET rejects the handler, which then sends no answer.
PollReply(outcome) ==
    /\ poll.pc = "p_get"
    /\ ~MicrotaskPending
    /\ outcome # "ok" => Solo /\ faults < MaxFaults
    /\ faults' = IF outcome = "ok" THEN faults ELSE faults + 1
    /\ poll' = IF outcome = "ok"
               THEN Answered(poll, Answer(RedisGetJob(poll.id)))
               ELSE [poll EXCEPT !.pc = "idle"]
    /\ UNCHANGED <<clockVars, redisUrl, backend, memVars, redisVars, issued, req,
                   webhooks, ret>>

\* ------------------------------------------------------------ environment
\* process.env.REDIS_URL (read at queue.ts:125) is set or deleted while the
\* process runs.
SetRedisUrl(v) ==
    /\ v # redisUrl
    /\ ~MicrotaskPending
    /\ redisUrl' = v
    /\ UNCHANGED <<clockVars, obsVars, backend, memVars, redisVars, issued, req,
                   webhooks, faults>>

\* ------------------------------------------------------- specifications
Step(r) ==
    \/ CreateJobRedis(r)
    \/ \E o \in SetOutcomes : CreateSetReply(r, o)
    \/ Ack(r)
    \/ RunStart(r)
    \/ \E res \in Results : VerifyReturn(r, res)
    \/ \E err \in Thrown : VerifyThrow(r, err)
    \/ Catch(r)
    \/ \E o \in GetOutcomes : UpdGetReply(r, o)
    \/ \E o \in SetOutcomes : UpdSetReply(r, o)
    \/ PushWebhook(r)
    \/ \E o \in WebhookOutcomes : WebhookReply(r, o)

Next ==
    \/ \E r \in Requests, body \in Bodies : PostVerifyAsync(r, body)
    \/ ImportDone
    \/ \E r \in Requests : Step(r)
    \/ \E d \in TickSteps : Tick(d)
    \/ Sweep

Spec == Init /\ [][Next]_vars

\* The program within one minute: the clock does not advance and the
\* sweeper's timer is not due.
NextMinute ==
    \/ \E r \in Requests, body \in Bodies : PostVerifyAsync(r, body)
    \/ ImportDone
    \/ \E r \in Requests : Step(r)

\* The program within one minute, with a client polling GET /jobs/:id.
NextPolled ==
    \/ NextMinute
    \/ \E id \in UUIDs : GetJobsId(id)
    \/ PollGet
    \/ \E o \in GetOutcomes : PollReply(o)

PollSpec == Init /\ [][NextPolled]_vars

\* ... and with REDIS_URL changing under the running process.
NextEnv ==
    \/ NextPolled
    \/ \E v \in BOOLEAN : SetRedisUrl(v)

EnvSpec == Init /\ [][NextEnv]_vars

\* Every settled promise's continuation runs, the import settles, and every
\* call in flight (Redis command, verify, fetch) settles.
FairMinuteSpec ==
    /\ Init /\ [][NextMinute]_vars
    /\ WF_vars(ImportDone)
    /\ \A r \in Requests : WF_vars(Step(r))

\* ------------------------------------- the facade on both backends at once
\* createJob, getJob and updateJob called one after the other (each call
\* awaited) on an InMemoryBackend (store) and on a BullMQBackend (redis)
\* that draw the same ids and read the same clock; Redis answers every
\* command and the clock stays far from both retention limits.
\* The inputs the handler passes to createJob.
FacadeInputs == {JobInput(b) : b \in {x \in Bodies : ValidationError(x) = "null"}}

\* The patches runJob passes to updateJob, and one that names a property
\* with the value undefined.
FacadePatches ==
    {[status |-> "running"]}
        \cup {[status |-> "done", result |-> res] : res \in Results}
        \cup {[status |-> "error", error |-> ErrorText(e)] : e \in Thrown}
        \cup {[error |-> Undefined]}

\* As many jobs are created as there are SoloRequests (records of different
\* ids share nothing); calls on the other ids are calls on unknown ids.
FacadeCreateJob(input) ==
    /\ Cardinality(issued) < Cardinality(SoloRequests)
    /\ \E id \in randomUUID :
         /\ issued' = issued \cup {id}
         /\ store' = With(store, id, NewJob(id, now, input))
         /\ redis' = RedisSet(key(id), JSONstringify(NewJob(id, now, input)))
         /\ ret' = [mem |-> RetJob(NewJob(id, now, input)),
                    red |-> RetJob(NewJob(id, now, input))]
    /\ UNCHANGED <<clockVars, redisUrl, backend, nextSweep, lastSweep, ready,
                   req, setcmd, webhooks, faults, poll>>

FacadeGetJob(id) ==
    /\ ret' = [mem |-> MemGetJob(id), red |-> RedisGetJob(id)]
    /\ UNCHANGED <<clockVars, redisUrl, backend, memVars, redisVars, issued,
                   req, webhooks, faults, poll>>

FacadeUpdateJob(id, patch) ==
    /\ store' = MemUpdateJob(store, id, patch, now)
    /\ redis' = IF RedisHas(key(id))
                THEN RedisSet(key(JSONparse(redis[key(id)].raw).id),
                              RedisUpdated(JSONparse(redis[key(id)].raw), patch, now))
                ELSE redis
    /\ ret' = [mem |-> RetUndefined, red |-> RetUndefined]
    /\ UNCHANGED <<clockVars, redisUrl, backend, nextSweep, lastSweep, ready,
                   issued, req, setcmd, webhooks, faults, poll>>

FacadeTick ==
    /\ ticks < MaxTicks
    /\ now' = now + 1
    /\ ticks' = ticks + 1
    /\ UNCHANGED <<redisUrl, backend, memVars, redisVars, issued, req, webhooks,
                   faults, obsVars>>

NextFacade ==
    \/ \E input \in FacadeInputs : FacadeCreateJob(input)
    \/ \E id \in UUIDs : FacadeGetJob(id)
    \/ \E id \in UUIDs, patch \in FacadePatches : FacadeUpdateJob(id, patch)
    \/ FacadeTick

FacadeSpec == Init /\ [][NextFacade]_vars


\* ================================================================ claims
Status(id) == GetJob(id).status
Has(job, k) == k \in DOMAIN job

\* C1: the stored status of a job changes only along pending -> running ->
\* done or pending -> running -> error, and a record enters the store as
\* pending; once done or error it changes no more.
StatusSteps ==
    {<<"pending", "running">>, <<"running", "done">>, <<"running", "error">>}

C1_StatusOrder ==
    [][\A id \in UUIDs :
          /\ (Stored(id) /\ Stored(id)') =>
                \/ Status(id)' = Status(id)
                \/ <<Status(id), Status(id)'>> \in StatusSteps
          /\ (id \notin issued /\ Stored(id)') => Status(id)' = "pending"]_vars

\* C2: every stored record has result populated iff status = done and error
\* populated iff status = error (so never both).
C2_ResultErrorIff ==
    \A id \in UUIDs :
        Stored(id) =>
            /\ Has(GetJob(id), "result") <=> Status(id) = "done"
            /\ Has(GetJob(id), "error") <=> Status(id) = "error"

\* What getJob returns for the job of request r is a record that is done,
\* with a result and no error.
ReturnsDone(r) ==
    /\ Stored(req[r].jobId)
    /\ Status(req[r].jobId) = "done"
    /\ Has(GetJob(req[r].jobId), "result")
    /\ ~Has(GetJob(req[r].jobId), "error")

\* ... a record that is in error, with a non-empty error text and no result.
ReturnsError(r) ==
    /\ Stored(req[r].jobId)
    /\ Status(req[r].jobId) = "error"
    /\ Has(GetJob(req[r].jobId), "error")
    /\ GetJob(req[r].jobId).error # ""
    /\ ~Has(GetJob(req[r].jobId), "result")

\* C3: a job whose verification call returns a result is eventually
\* returned by getJob as done, with the result and without error.
C3_EventuallyDone ==
    \A r \in Requests : <>(req[r].verified = "ok") => <>ReturnsDone(r)

\* C4: a job whose verification call fails is eventually returned by getJob
\* as error, with a non-empty error text and without result.
C4_EventuallyError ==
    \A r \in Requests : <>(req[r].verified = "fail") => <>ReturnsError(r)

\* C5: an updateJob call on an id that is not in the store returns without
\* raising and leaves the store as it was (both backends).  The in-memory
\* call is one step; the Redis call is decided when its GET settles.
UpdateOfUnknownId(r) ==
    \/ /\ backend = "memory"
       /\ req[r].pc \in {"run_start", "verify", "catch"}
       /\ req'[r].pc # req[r].pc
       /\ req[r].jobId \notin DOMAIN store
    \/ /\ backend = "redis"
       /\ req[r].pc = "u_get"
       /\ req'[r].pc # "u_get"
       /\ ~RedisHas(key(req[r].jobId))

C5_UnknownIdNoop ==
    [][\A r \in Requests :
          UpdateOfUnknownId(r) =>
              /\ req'[r].pc \notin {"rejected", "catch"}
              /\ store' = store
              /\ redis' = redis
              /\ setcmd' = setcmd]_vars

\* C6: createJob returns an id no earlier job has, and right after it
\* returns getJob yields that job as pending with the given input.
SameInput(a, b) ==
    \A k \in {"output", "question", "tier", "callbackUrl"} : Prop(a, k) = Prop(b, k)

C6_FreshPending ==
    /\ \A r1, r2 \in Requests :
          (r1 # r2 /\ req[r1].jobId # 0 /\ req[r2].jobId # 0) =>
              req[r1].jobId # req[r2].jobId
    /\ \A r \in Requests :
          req[r].pc = "created" =>
              /\ Stored(req[r].jobId)
              /\ GetJob(req[r].jobId).id = req[r].jobId
              /\ Status(req[r].jobId) = "pending"
              /\ SameInput(GetJob(req[r].jobId).input, req[r].input)

\* The second createJob has just returned, on the Redis backend, for a
\* request without callbackUrl.
C6_Witness ==
    \E r1, r2 \in Requests :
        /\ r1 # r2 /\ req[r1].jobId # 0
        /\ req[r2].pc = "created"
        /\ backend = "redis"
        /\ req[r2].input.callbackUrl = Undefined


\* C7 (in-memory backend): a job is still returned by getJob while its age
\* is at most one hour, whatever sweeper runs there were, and is not
\* returned once the sweeper has run after its age passed one hour.
C7_Retention ==
    \A r \in Requests :
        (backend = "memory" /\ req[r].jobId # 0) =>
            /\ now - req[r].createdAt <= RETENTION => req[r].jobId \in DOMAIN store
            /\ lastSweep > req[r].createdAt + RETENTION =>
                   req[r].jobId \notin DOMAIN store

\* The sweeper has run when the job was exactly one hour old, and kept it.
C7_Witness ==
    \E r \in Requests :
        /\ backend = "memory" /\ req[r].jobId # 0
        /\ lastSweep = req[r].createdAt + RETENTION
        /\ req[r].jobId \in DOMAIN store

\* Webhook attempts of a job: at most one, none without callbackUrl, and
\* its payload carries the status of the runner's terminal updateJob call.
HookDiscipline(r) ==
    /\ Len(webhooks[r]) <= 1
    /\ Len(webhooks[r]) >= 1 =>
          /\ req[r].input.callbackUrl # Undefined
          /\ webhooks[r][1].jobId = req[r].jobId
          /\ webhooks[r][1].status \in {"done", "error"}

\* C8 as stated: at most one webhook attempt per job, only with a
\* callbackUrl, and only after the terminal status was written to the store.
C8_AfterTerminalWrite ==
    \A r \in Requests :
        /\ HookDiscipline(r)
        /\ Len(webhooks[r]) >= 1 => req[r].term = "written"

\* C8 as amended: ... and only after the runner's terminal updateJob call
\* (done or error) has returned, which wrote the status unless the record
\* was no longer in the store.
C8_AfterTerminalUpdate ==
    \A r \in Requests :
        /\ HookDiscipline(r)
        /\ Len(webhooks[r]) >= 1 => req[r].term \in {"written", "noop"}

\* A webhook was attempted after the terminal status was written, and the
\* job of another request, without callbackUrl, ended with none.
C8_Witness ==
    \E r1, r2 \in Requests :
        /\ Len(webhooks[r1]) = 1 /\ req[r1].term = "written" /\ req[r1].pc = "end"
        /\ req[r2].pc = "end" /\ req[r2].input.callbackUrl = Undefined
        /\ Len(webhooks[r2]) = 0

\* C9: when a webhook delivery fails, runJob ends without raising and the
\* stored records are what they were before; the record, if still there,
\* is in a terminal status.
C9_FailedDeliveryNoEffect ==
    [][\A r \in Requests :
          (req[r].pc = "hook_wait" /\ req'[r].hook = "failed") =>
              /\ req'[r].pc = "end"
              /\ store' = store
              /\ redis' = redis
              /\ Stored(req[r].jobId)' => Status(req[r].jobId)' \in {"done", "error"}]_vars

\* A delivery has failed for a job that is stored as done.
C9_Witness ==
    \E r \in Requests :
        /\ req[r].hook = "failed" /\ req[r].pc = "end"
        /\ Stored(req[r].jobId) /\ Status(req[r].jobId) = "done"

\* C10: runJob's promise never rejects: no failure of a backend call or of
\* the webhook escapes the runner.
C10_RunnerNeverRejects ==
    \A r \in Requests : req[r].pc # "rejected"

\* C11: every request answered 202 has one job of its own and one runner:
\* the runner is started right after the 202 and never a second time, and
\* the runner's first write and the verification call come after the 202.
RunnerStarted(q) == q.phase # "none"

C11_AckBeforeRunner ==
    /\ [](\A r \in Requests :
            /\ RunnerStarted(req[r]) => req[r].acked
            /\ req[r].acked =>
                  /\ req[r].jobId \in issued
                  /\ \A r2 \in Requests \ {r} : req[r2].jobId # req[r].jobId
                  /\ req[r].pc = "run_start" \/ RunnerStarted(req[r]))
    /\ [][\A r \in Requests :
            /\ RunnerStarted(req[r]) =>
                  RunnerStarted(req'[r]) /\ req'[r].pc # "run_start"
            /\ req'[r].jobId # req[r].jobId => req[r].jobId = 0
            /\ Cardinality(issued') =
                  Cardinality({r2 \in Requests : req'[r2].jobId # 0})]_vars

\* Two requests were answered 202 and both runners have called verify.
C11_Witness ==
    \A r \in Requests : req[r].acked /\ req[r].pc = "verify"

\* C12: a request that fails validation is answered 400 and changes
\* nothing: no backend is constructed, no id is drawn, no record is written,
\* no runner starts and no webhook is attempted; only a request with output,
\* question and the mandatory key gets past the checks.
C12_InvalidChangesNothing ==
    /\ [](\A r \in Requests :
            req[r].pc = "badreq" =>
                /\ req[r].jobId = 0 /\ ~req[r].acked
                /\ ~RunnerStarted(req[r]) /\ webhooks[r] = <<>>)
    /\ [][\A r \in Requests :
            (req[r].pc = "idle" /\ req'[r].pc # "idle") =>
                IF req'[r].pc = "badreq"
                THEN /\ UNCHANGED <<backend, memVars, redisVars, issued, webhooks>>
                     /\ \A r2 \in Requests \ {r} : req'[r2] = req[r2]
                ELSE /\ req'[r].input.output # ""
                     /\ req'[r].input.question # ""]_vars

\* A request was answered 400 before any backend existed, and a later
\* request was accepted and has run to its end.
C12_Witness ==
    \E r1, r2 \in Requests :
        /\ req[r1].pc = "badreq" /\ req[r2].pc = "end"
        /\ issued = {req[r2].jobId}

\* C13: called in the same order with the same ids and clock values, the
\* two backends return the same: both a record or both undefined, and the
\* records agree on what every property reads as.
Defined(obj, k) == k \in DOMAIN obj /\ (k \in TextKeys => obj[k] # Undefined)

SameProp(a, b, k) ==
    /\ Defined(a, k) <=> Defined(b, k)
    /\ Defined(a, k) => a[k] = b[k]

JobKeys == {"id", "status", "createdAt", "updatedAt", "result", "error"}

SameJob(a, b) ==
    /\ \A k \in JobKeys : SameProp(a, b, k)
    /\ \A k \in DOMAIN a.input \cup DOMAIN b.input : SameProp(a.input, b.input, k)

C13_SameResults ==
    /\ ret.mem.kind = ret.red.kind
    /\ ret.mem.kind = "job" => SameJob(ret.mem.job, ret.red.job)

\* getJob has returned, on both backends, a record that was updated after
\* the minute of its creation and whose input has no callbackUrl: a
\* property with the value undefined in memory, no property in Redis.
C13_Witness ==
    /\ ret.mem.kind = "job" /\ ret.red.kind = "job"
    /\ ret.mem.job.status = "done"
    /\ getTime(ret.mem.job.updatedAt) > getTime(ret.mem.job.createdAt)
    /\ "callbackUrl" \in DOMAIN ret.mem.job.input
    /\ "callbackUrl" \notin DOMAIN ret.red.job.input

\* C14: for a job without callbackUrl no webhook is attempted, and what a
\* poller of the job is answered follows the order pending, running, done,
\* a done answer carrying the result; all three are seen in one execution
\* (C14_Witness).
Rank(a) ==
    CASE a.status = "pending" -> 1
      [] a.status = "running" -> 2
      [] a.status = "done" -> 3
      [] OTHER -> 0

C14_PollOrder ==
    /\ \A r \in Requests :
          (req[r].pc # "idle" /\ ~HasCallback(req[r])) => webhooks[r] = <<>>
    /\ \A i, j \in 1..Len(poll.seen) :
          (i < j /\ Rank(poll.seen[i]) > 0 /\ Rank(poll.seen[j]) > 0) =>
              Rank(poll.seen[i]) < Rank(poll.seen[j])
    /\ \A i \in 1..Len(poll.seen) :
          poll.seen[i].status = "done" => poll.seen[i].result \in Results

\* The poller of a job without callbackUrl was answered pending, then
\* running, then done with the result, and the runner has ended.
C14_Witness ==
    \E r \in Requests :
        /\ poll.id = req[r].jobId /\ req[r].pc = "end" /\ req[r].acked
        /\ ~HasCallback(req[r]) /\ webhooks[r] = <<>>
        /\ Len(poll.seen) = 3
        /\ poll.seen[1].status = "pending"
        /\ poll.seen[2].status = "running"
        /\ poll.seen[3] = [status |-> "done", result |-> req[r].result]

\* C15 (in-memory backend): a sweeper run removes exactly the records
\* created more than one hour before it, whatever their status and however
\* recently they were updated; no other step removes a record, and an
\* update leaves createdAt as it was.
SweeperRuns == backend = "memory" /\ lastSweep' # lastSweep

C15_EvictionByCreatedAt ==
    [][IF SweeperRuns
       THEN \A r \in Requests :
                req[r].jobId \in DOMAIN store =>
                    (req[r].jobId \in DOMAIN store'
                        <=> req[r].createdAt >= now - RETENTION)
       ELSE \A id \in DOMAIN store :
                /\ id \in DOMAIN store'
                /\ store'[id].createdAt = store[id].createdAt]_vars

\* The sweeper has removed the record of a job that is running.
C15_Witness ==
    \E r \in Requests :
        /\ backend = "memory" /\ req[r].pc = "verify"
        /\ lastSweep > req[r].createdAt + RETENTION
        /\ req[r].jobId \notin DOMAIN store

\* C16 (Redis backend): every write of a job's key, by createJob or by
\* updateJob, sets its expiry to 24 hours from the write, so getJob returns
\* the job until 24 hours after its latest write (at least 24 hours after
\* the latest updatedAt it stamped) and no longer after that.
Written(id) ==
    /\ key(id) \in DOMAIN redis'
    /\ key(id) \notin DOMAIN redis \/ redis'[key(id)] # redis[key(id)]

C16_TtlFromLatestWrite ==
    /\ [][\A id \in UUIDs :
            /\ Written(id) => redis'[key(id)].expireAt = now' + TTL
            /\ key(id) \in DOMAIN redis => key(id) \in DOMAIN redis']_vars
    /\ [](\A id \in UUIDs :
            key(id) \in DOMAIN redis =>
                /\ RedisGetJob(id).kind = "job" <=> now < redis[key(id)].expireAt
                /\ redis[key(id)].expireAt >=
                       getTime(JSONparse(redis[key(id)].raw).updatedAt) + TTL
                /\ redis[key(id)].expireAt <= now + TTL)

\* More than 24 hours after its creation getJob still returns a job,
\* because updateJob wrote it later.
C16_Witness ==
    \E r \in Requests :
        /\ backend = "redis" /\ req[r].term = "written"
        /\ now >= req[r].createdAt + TTL
        /\ RedisGetJob(req[r].jobId).kind = "job"

\* C17: the backend is chosen at the first facade call, from REDIS_URL as
\* it is then, and constructed once; no later call and no change of
\* REDIS_URL changes it, and every call works on that backend only.
C17_BackendChosenOnce ==
    /\ [](nextSweep = -1 \/ ready = "none")
    /\ [][/\ backend # "null" => backend' = backend
          /\ (backend = "null" /\ backend' # "null") =>
                 backend' = IF redisUrl THEN "redis" ELSE "memory"
          /\ ready # "none" => ready' \in {ready, "resolved"}
          /\ nextSweep = -1 \/ nextSweep' # -1
          /\ store' # store => backend' = "memory"
          /\ (redis' # redis \/ setcmd' # setcmd) => backend' = "redis"]_vars

\* REDIS_URL was set after the in-memory backend had been chosen, and a
\* createJob called after that has returned: both jobs are in the Map and
\* no Redis backend was constructed.
C17_Witness ==
    \E r1, r2 \in Requests :
        /\ backend = "memory" /\ redisUrl /\ ready = "none"
        /\ req[r1].pc = "end" /\ req[r2].pc = "created"
        /\ {req[r1].jobId, req[r2].jobId} \subseteq DOMAIN store

\* C18 (Redis backend): while ready is not set no command is in flight, no
\* key was written and no operation has returned; an operation called
\* before ready was set waits, and ends as one called after it does:
\* createJob has stored the pending record of its input, stamped when it
\* went on, and getJob answers from the keys as they are when its GET
\* settles.
C18_NothingBeforeReady ==
    /\ []((backend = "redis" /\ ready # "resolved") =>
            /\ redis = <<>> /\ setcmd = <<>>
            /\ \A r \in Requests : req[r].pc \in {"idle", "badreq", "c_wait"}
            /\ poll.pc \in {"idle", "p_wait"}
            /\ poll.seen = <<>>)
    /\ [](\A r \in Requests :
            (backend = "redis" /\ req[r].pc = "created") =>
                RedisGetJob(req[r].jobId) =
                    RetJob(JSONparse(JSONstringify(
                        NewJob(req[r].jobId, req[r].createdAt, req[r].input)))))
    /\ [][(poll.pc = "p_get" /\ poll'.pc = "idle" /\ faults' = faults) =>
              poll' = Answered(poll, Answer(RedisGetJob(poll.id)))]_vars

\* The first POST constructed the Redis backend, waited for ready together
\* with a poll, and both have completed: createJob has returned and the
\* poll, whose GET settled first, was answered 404.
C18_Witness ==
    /\ backend = "redis" /\ ready = "resolved"
    /\ req[1].pc = "created"
    /\ poll.id = req[1].jobId /\ poll.pc = "idle"
    /\ Len(poll.seen) = 1 /\ poll.seen[1].status = "404"

\* C19: a stored job keeps the id, createdAt and input createJob gave it,
\* its updatedAt is never before its createdAt, and no write sets updatedAt
\* back.
KeepsCreation(job, q) ==
    /\ {"id", "createdAt", "updatedAt", "input"} \subseteq DOMAIN job
    /\ job.id = q.jobId
    /\ job.createdAt = toISOString(q.createdAt)
    /\ SameInput(job.input, q.input)
    /\ getTime(job.updatedAt) >= getTime(job.createdAt)

C19_CreationFieldsKept ==
    /\ [](\A r \in Requests :
            (req[r].jobId # 0 /\ Stored(req[r].jobId)) =>
                KeepsCreation(GetJob(req[r].jobId), req[r]))
    /\ [][\A id \in UUIDs :
            (Stored(id) /\ Stored(id)') =>
                getTime(GetJob(id).updatedAt)' >= getTime(GetJob(id).updatedAt)]_vars

\* A job created after the clock's first minute has been written twice by
\* its runner, the second time at a later minute.
C19_Witness ==
    \E r \in Requests :
        /\ req[r].createdAt > 0 /\ req[r].term = "written"
        /\ Stored(req[r].jobId)
        /\ getTime(GetJob(req[r].jobId).updatedAt) > req[r].createdAt

\* C20: when the runner pushes a webhook, the record of the job, if getJob
\* still returns one, has the status of the payload and the same result
\* (payload done) or error (payload error).
Dispatches(r) == Len(webhooks'[r]) > Len(webhooks[r])

PayloadMatches(p, job) ==
    /\ job.status = p.status
    /\ p.status = "done" => Has(job, "result") /\ job.result = p.result
    /\ p.status = "error" => Has(job, "error") /\ job.error = p.error

C20_PayloadMatchesRecord ==
    [][\A r \in Requests :
          (Dispatches(r) /\ Stored(req[r].jobId)) =>
              PayloadMatches(webhooks'[r][Len(webhooks'[r])],
                             GetJob(req[r].jobId))]_vars

\* An error webhook was pushed for a job whose verification had returned a
\* result (the done write was rejected), and the record is in error.
C20_Witness ==
    \E r \in Requests :
        /\ Len(webhooks[r]) = 1 /\ webhooks[r][1].status = "error"
        /\ req[r].verified = "ok"
        /\ Stored(req[r].jobId) /\ Status(req[r].jobId) = "error"

====
